---- MODULE Spec2Model ----
(***************************************************************************)
(* Model of the project-submission form (Form.jsx, handleSubmit and the    *)
(* field handlers) and of the result poller (the Verify component whose    *)
(* source is carried at the end of README.md), together with the routing   *)
(* that hands the job identifier from one to the other.                    *)
(*                                                                         *)
(* JavaScript strings that the code inspects character by character (the   *)
(* repository URL, the job identifier inside the navigation target, file   *)
(* names and media types) are sequences of one-character strings.  Time is *)
(* in milliseconds since the /verify document was loaded.                  *)
(***************************************************************************)
EXTENDS Integers, Sequences, FiniteSets, TLC

VARIABLES
    page,            \* which document / route element is live
    formData,        \* Form.jsx useState: the draft
    submitInFlight,  \* pending fetch("/submit") promises of the live document
    submitsSent,     \* POST /submit requests sent so far
    emitted,         \* side effects of the most recent handler run
    pendingNav,      \* the navigation started and not yet committed, or NoNav
    jobId,           \* Verify: query.get("job_id") captured by the effect
    handoff,         \* the job_id of the submit response that caused the navigation
    mounted,         \* Verify is mounted
    result,          \* Verify useState: result
    timerActive,     \* the setInterval timer exists and is not cleared
    timerDue,        \* time of its next firing
    now,             \* current time
    pollInFlight,    \* status requests awaiting their outcome (by sequence number)
    starts,          \* start time of every status request, in order
    received,        \* every poll response body received, in order
    failures,        \* poll attempts that ended in a rejected fetch / res.json()
    staleSetResult   \* setResult was called after Verify was unmounted

formVars == <<formData, submitInFlight, submitsSent, pendingNav>>
pollVars == <<jobId, handoff, mounted, result, timerActive, timerDue, now,
              pollInFlight, starts, received, failures, staleSetResult>>
vars == <<page, formData, submitInFlight, submitsSent, emitted, pendingNav,
          jobId, handoff, mounted, result, timerActive, timerDue, now,
          pollInFlight, starts, received, failures, staleSetResult>>

---------------------------------------------------------------------------
(* Bounds of the model.                                                    *)

MaxSubmits == 2
MaxPolls == 3
MaxTime == 10500
TimeStep == 1500

\* the setInterval period of Verify, in milliseconds
PollInterval == 3000

---------------------------------------------------------------------------
(* JavaScript values and string operations.                                *)

\* null / undefined where an object is expected (a File, a parsed JSON object)
Null == [null |-> TRUE]
\* null where a string is expected (URLSearchParams.get of an absent name)
NullStr == <<"<null>">>

startsWith(s, p) == Len(s) >= Len(p) /\ SubSeq(s, 1, Len(p)) = p

endsWith(s, p) == Len(s) >= Len(p) /\ SubSeq(s, Len(s) - Len(p) + 1, Len(s)) = p

includes(s, p) == \E i \in 1..(Len(s) - Len(p) + 1) : SubSeq(s, i, i + Len(p) - 1) = p

RECURSIVE IndexOf(_, _, _)
IndexOf(s, c, i) ==
    IF i > Len(s) THEN 0
    ELSE IF s[i] = c THEN i ELSE IndexOf(s, c, i + 1)

RECURSIVE Split(_, _)
Split(s, c) ==
    LET i == IndexOf(s, c, 1)
    IN IF i = 0 THEN <<s>>
       ELSE <<SubSeq(s, 1, i - 1)>> \o Split(SubSeq(s, i + 1, Len(s)), c)

RECURSIVE join(_, _)
join(arr, sep) ==
    IF arr = <<>> THEN <<>>
    ELSE IF Len(arr) = 1 THEN <<Head(arr)>>
    ELSE <<Head(arr), sep>> \o join(Tail(arr), sep)

\* truthiness of a string-or-null value
Truthy(v) == v # NullStr /\ v # <<>>

\* `${v}` for a string-or-null value
TemplateStr(v) == IF v = NullStr THEN <<"n", "u", "l", "l">> ELSE v

---------------------------------------------------------------------------
(* Inputs.                                                                 *)

TECH_OPTIONS == {"React", "Go"}

PROJECT_TYPES == {"frontend", "python"}

ProjectNames == {"", "Demo"}

Http == <<"h", "t", "t", "p">>
UrlEmpty == <<>>
UrlHttpFoo == Http \o <<"f", "o", "o", ":", "x">>
UrlFtp == <<"f", "t", "p", ":", "/", "/", "x">>
UrlHttps == Http \o <<"s", ":", "/", "/", "x">>
RepoUrls == {UrlEmpty, UrlHttpFoo, UrlFtp, UrlHttps}

DotZip == <<".", "z", "i", "p">>
ZipWord == <<"z", "i", "p">>
CompressedWord == <<"c", "o", "m", "p", "r", "e", "s", "s", "e", "d">>
FileLowerZip == [name |-> <<"a">> \o DotZip, type |-> <<>>]
FileUpperZip == [name |-> <<"A", ".", "Z", "I", "P">>, type |-> <<>>]
FileTypedZip == [name |-> <<"b">>, type |-> <<"x", "-">> \o ZipWord]
FileTypedCompressed == [name |-> <<"c">>, type |-> <<"x", "-">> \o CompressedWord]
FileText == [name |-> <<"d", ".", "t", "x", "t">>, type |-> <<"t", "e", "x", "t">>]
Files == {FileLowerZip, FileUpperZip, FileTypedZip, FileTypedCompressed, FileText}

JobIdPlain == <<"a", "b", "c", "-", "1", "2", "3">>
JobIdPlus == <<"a", "+", "b">>
JobIdAmp == <<"a", "&", "b">>
JobIds == {JobIdPlain, JobIdPlus, JobIdAmp}

\* bodies of a /submit response: not JSON, {}, {"job_id": ""}, {"job_id": id}
BodyMalformed == [malformed |-> TRUE]
BodyEmpty == [k \in {} |-> 0]
SubmitBodies == {BodyMalformed, BodyEmpty, [job_id |-> <<>>]} \cup {[job_id |-> j] : j \in JobIds}

\* outcomes of fetch("/submit"): the promise rejects, or a response arrives
FetchRejected == [rejected |-> TRUE]
SubmitOutcomes == {FetchRejected} \cup [ok : BOOLEAN, body : SubmitBodies]

\* bodies of a /result response
Processing == [status |-> "processing"]
Completed == [status |-> "completed", score |-> 42]
Failed == [status |-> "failed", score |-> 0]
NoStatus == [score |-> 7]
PollBodies == {Processing, Completed, Failed, NoStatus}

---------------------------------------------------------------------------
(* Side effects of one handler run: alert() messages, fetch("/submit")     *)
(* bodies, and assignments to window.location.href, each in program order. *)

NoEffects == [alerts |-> <<>>, fetches |-> <<>>, hrefs |-> <<>>]
Alert(msg) == [NoEffects EXCEPT !.alerts = <<msg>>]
Fetch(data) == [NoEffects EXCEPT !.fetches = <<data>>]
Href(url) == [NoEffects EXCEPT !.hrefs = <<url>>]

---------------------------------------------------------------------------
(* Form.jsx                                                                *)

InitialFormData ==
    [projectName |-> "", category |-> "default", techStack |-> <<>>,
     submissionType |-> "zip", repoUrl |-> <<>>, file |-> Null]

\* Array.prototype.includes / filter on the techStack array
ArrayIncludes(arr, x) == \E i \in 1..Len(arr) : arr[i] = x

RECURSIVE Without(_, _)
Without(arr, x) ==
    IF arr = <<>> THEN <<>>
    ELSE IF Head(arr) = x THEN Without(Tail(arr), x)
    ELSE <<Head(arr)>> \o Without(Tail(arr), x)

\* a toggle that appends without looking for the technology
toggleTechStackAlwaysAppends(techStack, tech) == Append(techStack, tech)

\* a toggle that puts a newly selected technology first
toggleTechStackPrepends(techStack, tech) ==
    IF ArrayIncludes(techStack, tech)
    THEN Without(techStack, tech)
    ELSE <<tech>> \o techStack

toggleTechStack(techStack, tech) ==
    IF ArrayIncludes(techStack, tech)
    THEN Without(techStack, tech)
    ELSE Append(techStack, tech)

\* validateFile's condition
AcceptsFile(file) ==
    \/ endsWith(file.name, DotZip)
    \/ includes(file.type, ZipWord)
    \/ includes(file.type, CompressedWord)

MsgProjectType == "Please select a project type."
MsgTechnology == "Please select at least one technology."
MsgZipFile == "Please upload a zip file."
MsgRepoUrl == "Please enter a valid Git repository URL."
MsgNotZip == "Please upload a .zip file"
MsgSubmissionFailed == "Submission failed."
NoError == ""

\* handleSubmit's checks with the techStack check left out
ValidationErrorNoTech(fd) ==
    IF fd.category = "default" THEN MsgProjectType
    ELSE IF fd.submissionType = "zip"
         THEN (IF fd.file = Null THEN MsgZipFile ELSE NoError)
         ELSE (IF ~Truthy(fd.repoUrl) \/ ~startsWith(fd.repoUrl, Http)
               THEN MsgRepoUrl ELSE NoError)

\* handleSubmit's checks with the techStack check put before the category's
ValidationErrorTechFirst(fd) ==
    IF Len(fd.techStack) = 0 THEN MsgTechnology
    ELSE IF fd.category = "default" THEN MsgProjectType
    ELSE IF fd.submissionType = "zip"
         THEN (IF fd.file = Null THEN MsgZipFile ELSE NoError)
         ELSE (IF ~Truthy(fd.repoUrl) \/ ~startsWith(fd.repoUrl, Http)
               THEN MsgRepoUrl ELSE NoError)

\* handleSubmit's checks, in order; the message of the first that fails
ValidationError(fd) ==
    IF fd.category = "default" THEN MsgProjectType
    ELSE IF Len(fd.techStack) = 0 THEN MsgTechnology
    ELSE IF fd.submissionType = "zip"
         THEN (IF fd.file = Null THEN MsgZipFile ELSE NoError)
         ELSE (IF ~Truthy(fd.repoUrl) \/ ~startsWith(fd.repoUrl, Http)
               THEN MsgRepoUrl ELSE NoError)

\* the template literal `${projectName} | Tech: ${techStack.join(", ")}`,
\* as the sequence of its pieces
Description(fd) == <<fd.projectName, " | Tech: ">> \o join(fd.techStack, ", ")

\* a FormData body that attaches whatever the draft holds, whatever the mode
BuildFormDataByContent(fd) ==
    <<<<"project_type", fd.category>>, <<"description", Description(fd)>>>>
    \o (IF fd.file # Null THEN <<<<"single_zip", fd.file>>>> ELSE <<>>)
    \o (IF Truthy(fd.repoUrl) THEN <<<<"git_url", fd.repoUrl>>>> ELSE <<>>)

\* the FormData body, as the sequence of its appended entries
BuildFormData(fd) ==
    <<<<"project_type", fd.category>>, <<"description", Description(fd)>>>>
    \o (IF fd.submissionType = "zip"
        THEN <<<<"single_zip", fd.file>>>>
        ELSE <<<<"git_url", fd.repoUrl>>>>)

SetProjectName ==
    /\ page = "evaluate"
    /\ \E v \in ProjectNames : formData' = [formData EXCEPT !.projectName = v]
    /\ emitted' = NoEffects
    /\ UNCHANGED <<page, submitInFlight, submitsSent, pendingNav, pollVars>>

SetCategory ==
    /\ page = "evaluate"
    /\ \E v \in PROJECT_TYPES : formData' = [formData EXCEPT !.category = v]
    /\ emitted' = NoEffects
    /\ UNCHANGED <<page, submitInFlight, submitsSent, pendingNav, pollVars>>

toggleTech ==
    /\ page = "evaluate"
    /\ \E tech \in TECH_OPTIONS :
         formData' = [formData EXCEPT !.techStack = toggleTechStack(@, tech)]
    /\ emitted' = NoEffects
    /\ UNCHANGED <<page, submitInFlight, submitsSent, pendingNav, pollVars>>

\* mode buttons that also drop what the draft stored for its source
SetSubmissionTypeClears ==
    /\ page = "evaluate"
    /\ \E t \in {"zip", "repo"} :
         formData' = [formData EXCEPT !.submissionType = t, !.file = Null, !.repoUrl = <<>>]
    /\ emitted' = NoEffects
    /\ UNCHANGED <<page, submitInFlight, submitsSent, pendingNav, pollVars>>

\* the "Upload Archive" / "Git Repository" buttons
SetSubmissionType ==
    /\ page = "evaluate"
    /\ \E t \in {"zip", "repo"} : formData' = [formData EXCEPT !.submissionType = t]
    /\ emitted' = NoEffects
    /\ UNCHANGED <<page, submitInFlight, submitsSent, pendingNav, pollVars>>

\* the URL input is rendered in repo mode only
SetRepoUrl ==
    /\ page = "evaluate"
    /\ formData.submissionType = "repo"
    /\ \E v \in RepoUrls : formData' = [formData EXCEPT !.repoUrl = v]
    /\ emitted' = NoEffects
    /\ UNCHANGED <<page, submitInFlight, submitsSent, pendingNav, pollVars>>

\* a validateFile that drops the stored file when it rejects the new one
validateFileClears ==
    /\ page = "evaluate"
    /\ formData.submissionType = "zip"
    /\ \E file \in Files :
         IF AcceptsFile(file)
         THEN /\ formData' = [formData EXCEPT !.file = file]
              /\ emitted' = NoEffects
         ELSE /\ formData' = [formData EXCEPT !.file = Null]
              /\ emitted' = Alert(MsgNotZip)
    /\ UNCHANGED <<page, submitInFlight, submitsSent, pendingNav, pollVars>>

\* handleDrop and the file input's onChange, both ending in validateFile;
\* the drop zone is rendered in zip mode only
validateFileWith(file) ==
    /\ page = "evaluate"
    /\ formData.submissionType = "zip"
    /\ IF AcceptsFile(file)
       THEN /\ formData' = [formData EXCEPT !.file = file]
            /\ emitted' = NoEffects
       ELSE /\ formData' = formData
            /\ emitted' = Alert(MsgNotZip)
    /\ UNCHANGED <<page, submitInFlight, submitsSent, pendingNav, pollVars>>

validateFile == \E file \in Files : validateFileWith(file)

\* handleSubmit up to its first await.  The handler is taken as callable in
\* every state of the draft (form.requestSubmit() does not need the button).
handleSubmit ==
    /\ page = "evaluate"
    /\ submitsSent < MaxSubmits
    /\ IF ValidationError(formData) # NoError
       THEN /\ emitted' = Alert(ValidationError(formData))
            /\ UNCHANGED <<submitInFlight, submitsSent>>
       ELSE /\ emitted' = Fetch(BuildFormData(formData))
            /\ submitInFlight' = submitInFlight + 1
            /\ submitsSent' = submitsSent + 1
    /\ UNCHANGED <<page, formData, pendingNav, pollVars>>

---------------------------------------------------------------------------
(* Navigation: an assignment to window.location.href and a click on an     *)
(* <a href> start a navigation; when it commits, a new document is loaded,  *)
(* the router picks the element by pathname and Verify reads job_id from   *)
(* the query.                                                              *)

\* the URL without its fragment
WithoutFragment(url) ==
    LET i == IndexOf(url, "#", 1)
    IN IF i = 0 THEN url ELSE SubSeq(url, 1, i - 1)

Pathname(url) ==
    LET u == WithoutFragment(url)
        i == IndexOf(u, "?", 1)
    IN IF i = 0 THEN u ELSE SubSeq(u, 1, i - 1)

\* location.search: the query with its leading "?", or the empty string
Search(url) ==
    LET u == WithoutFragment(url)
        i == IndexOf(u, "?", 1)
    IN IF i = 0 THEN <<>> ELSE SubSeq(u, i, Len(u))

\* application/x-www-form-urlencoded decoding of one name or value
\* (no "%" occurs in the identifiers of the model)
FormDecode(s) == [i \in 1..Len(s) |-> IF s[i] = "+" THEN " " ELSE s[i]]

RECURSIVE FirstValue(_, _)
FirstValue(pairs, name) ==
    IF pairs = <<>> THEN NullStr
    ELSE LET piece == Head(pairs)
             i == IndexOf(piece, "=", 1)
             n == IF i = 0 THEN piece ELSE SubSeq(piece, 1, i - 1)
             v == IF i = 0 THEN <<>> ELSE SubSeq(piece, i + 1, Len(piece))
         IN IF piece # <<>> /\ FormDecode(n) = name
            THEN FormDecode(v)
            ELSE FirstValue(Tail(pairs), name)

\* new URLSearchParams(search).get(name)
URLSearchParamsGet(search, name) ==
    LET q == IF search # <<>> /\ Head(search) = "?" THEN Tail(search) ELSE search
    IN FirstValue(Split(q, "&"), name)

\* no navigation is pending
NoNav == [none |-> TRUE]
\* a pending navigation to url; `from` is the job_id of the submit response
\* that started it (NullStr for a link)
Navigation(url, from) == [url |-> url, from |-> from]

VerifyPath == <<"/", "v", "e", "r", "i", "f", "y">>
EvaluatePath == <<"/", "e", "v", "a", "l", "u", "a", "t", "e">>
FeaturesPath == <<"/", "f", "e", "a", "t", "u", "r", "e", "s">>
ContactPath == <<"/", "c", "o", "n", "t", "a", "c", "t">>
JobIdParam == <<"j", "o", "b", "_", "i", "d">>

\* the <Routes> table
Route(pathname) ==
    IF pathname = VerifyPath THEN "verify"
    ELSE IF pathname = EvaluatePath THEN "evaluate"
    ELSE "landing"

\* `/verify?job_id=${json.job_id}`
VerifyHref(job_id) == VerifyPath \o <<"?">> \o JobIdParam \o <<"=">> \o TemplateStr(job_id)

\* a Verify whose effect also runs the callback once at mount
MountVerifyPollsAtOnce(url, from) ==
    /\ page' = "verify"
    /\ jobId' = URLSearchParamsGet(Search(url), JobIdParam)
    /\ handoff' = from
    /\ mounted' = TRUE
    /\ result' = Null
    /\ timerActive' = TRUE
    /\ timerDue' = PollInterval
    /\ now' = 0
    /\ pollInFlight' = {[n |-> 1,
                         target |-> TemplateStr(URLSearchParamsGet(Search(url), JobIdParam))]}
    /\ starts' = <<0>>
    /\ received' = <<>>
    /\ failures' = 0
    /\ staleSetResult' = FALSE

\* Verify's render and effect on mount: result is null, jobId is read from
\* the query, setInterval is armed for one period from now (time 0)
MountVerify(url, from) ==
    /\ page' = "verify"
    /\ jobId' = URLSearchParamsGet(Search(url), JobIdParam)
    /\ handoff' = from
    /\ mounted' = TRUE
    /\ result' = Null
    /\ timerActive' = TRUE
    /\ timerDue' = PollInterval
    /\ now' = 0
    /\ pollInFlight' = {}
    /\ starts' = <<>>
    /\ received' = <<>>
    /\ failures' = 0
    /\ staleSetResult' = FALSE

\* a new document: the old one's state and pending promises are gone
LoadDocument(url, from) ==
    /\ formData' = InitialFormData
    /\ submitInFlight' = 0
    /\ submitsSent' = 0
    /\ IF Route(Pathname(url)) = "verify"
       THEN MountVerify(url, from)
       ELSE /\ page' = Route(Pathname(url))
            /\ UNCHANGED pollVars

\* what handleSubmit's try block throws on: a rejected fetch, a body that is
\* not JSON, or a falsy json.job_id
SubmitThrows(o) ==
    \/ o = FetchRejected
    \/ o.body = BodyMalformed
    \/ "job_id" \notin DOMAIN o.body
    \/ ~Truthy(o.body.job_id)

\* a handleSubmit whose catch block also resets the draft
SubmitSettleResets ==
    /\ page = "evaluate"
    /\ submitInFlight > 0
    /\ \E o \in SubmitOutcomes :
         IF SubmitThrows(o)
         THEN /\ emitted' = Alert(MsgSubmissionFailed)
              /\ formData' = InitialFormData
              /\ UNCHANGED pendingNav
         ELSE /\ emitted' = Href(VerifyHref(o.body.job_id))
              /\ pendingNav' = Navigation(VerifyHref(o.body.job_id), o.body.job_id)
              /\ UNCHANGED formData
    /\ submitInFlight' = submitInFlight - 1
    /\ UNCHANGED <<page, submitsSent, pollVars>>

\* a handleSubmit whose catch block sends the request again
SubmitSettleRetries ==
    /\ page = "evaluate"
    /\ submitInFlight > 0
    /\ \E o \in SubmitOutcomes :
         IF SubmitThrows(o)
         THEN /\ emitted' = [Alert(MsgSubmissionFailed) EXCEPT
                                !.fetches = <<BuildFormData(formData)>>]
              /\ submitsSent' = submitsSent + 1
              /\ UNCHANGED <<submitInFlight, pendingNav>>
         ELSE /\ emitted' = Href(VerifyHref(o.body.job_id))
              /\ pendingNav' = Navigation(VerifyHref(o.body.job_id), o.body.job_id)
              /\ submitInFlight' = submitInFlight - 1
              /\ UNCHANGED submitsSent
    /\ UNCHANGED <<page, formData, pollVars>>

\* handleSubmit after its awaits, for one pending fetch that settles with
\* outcome o; res.ok / res.status is never read.  The assignment to
\* window.location.href starts a navigation and returns: the document, its
\* draft and its other pending submits live on until the navigation commits.
SubmitSettleWith(o) ==
    /\ page = "evaluate"
    /\ submitInFlight > 0
    /\ IF SubmitThrows(o)
       THEN /\ emitted' = Alert(MsgSubmissionFailed)
            /\ UNCHANGED pendingNav
       ELSE /\ emitted' = Href(VerifyHref(o.body.job_id))
            /\ pendingNav' = Navigation(VerifyHref(o.body.job_id), o.body.job_id)
    /\ submitInFlight' = submitInFlight - 1
    /\ UNCHANGED <<page, formData, submitsSent, pollVars>>

\* handleSubmit after its awaits: one pending fetch settles
SubmitSettle == \E o \in SubmitOutcomes : SubmitSettleWith(o)

\* the Navbar's links, <a href> without a click handler: a click starts a
\* navigation to the href, replacing one that has not committed yet
NavbarHrefs == {FeaturesPath, EvaluatePath, VerifyPath, ContactPath}

\* Navbar is rendered by Evaluate and by Landing
NavbarClick ==
    /\ page \in {"evaluate", "landing"}
    /\ \E href \in NavbarHrefs : pendingNav' = Navigation(href, NullStr)
    /\ emitted' = NoEffects
    /\ UNCHANGED <<page, formData, submitInFlight, submitsSent, pollVars>>

\* the browser commits the pending navigation: the new document replaces
\* the old one, whose handlers and pending promises never run again
CommitNavigation ==
    /\ pendingNav # NoNav
    /\ LoadDocument(pendingNav.url, pendingNav.from)
    /\ pendingNav' = NoNav
    /\ emitted' = NoEffects

---------------------------------------------------------------------------
(* Verify (README.md, the component listed after the documentation)        *)

\* json.status; a missing key reads as undefined
GetStatus(json) == IF "status" \in DOMAIN json THEN json.status ELSE "undefined"

\* a callback that stops on "completed" only
IsTerminalCompletedOnly(json) == GetStatus(json) = "completed"

\* json.status !== "processing"
IsTerminal(json) == GetStatus(json) # "processing"

\* a callback without its clearInterval(timer)
ClearsIntervalNever(json) == FALSE

\* whether the callback reaches clearInterval(timer) for this body
ClearsInterval(json) == IsTerminal(json)

\* a callback that stores every body's outcome: null for "processing"
ResultAfterResets(json, prev) == IF IsTerminal(json) THEN json ELSE Null

\* the state of `result` after the callback has handled this body
ResultAfter(json, prev) == IF IsTerminal(json) THEN json ELSE prev

\* `http://localhost:8000/result/${jobId}`, its last path segment
ResultTarget(id) == TemplateStr(id)

\* an interval callback that lets a tick pass while a request is in flight
TimerFireSkipsWhenBusy ==
    /\ page = "verify"
    /\ timerActive
    /\ now = timerDue
    /\ Len(starts) < MaxPolls
    /\ IF pollInFlight = {}
       THEN /\ starts' = Append(starts, now)
            /\ pollInFlight' = {[n |-> Len(starts) + 1, target |-> ResultTarget(jobId)]}
       ELSE UNCHANGED <<starts, pollInFlight>>
    /\ timerDue' = timerDue + PollInterval
    /\ emitted' = NoEffects
    /\ UNCHANGED <<page, formVars, jobId, handoff, mounted, result, timerActive, now,
                   received, failures, staleSetResult>>

\* the interval callback up to its first await: one status request starts.
\* The timer fires when due, whatever became of earlier requests, and stays
\* armed for the next period.
TimerFire ==
    /\ page = "verify"
    /\ timerActive
    /\ now = timerDue
    /\ Len(starts) < MaxPolls
    /\ starts' = Append(starts, now)
    /\ pollInFlight' = pollInFlight \cup {[n |-> Len(starts) + 1, target |-> ResultTarget(jobId)]}
    /\ timerDue' = timerDue + PollInterval
    /\ emitted' = NoEffects
    /\ UNCHANGED <<page, formVars, jobId, handoff, mounted, result, timerActive, now,
                   received, failures, staleSetResult>>

\* time passes, never beyond a due timer
Advance ==
    /\ page = "verify"
    /\ now < MaxTime
    /\ timerActive => now < timerDue
    /\ now' = IF timerActive /\ timerDue < now + TimeStep THEN timerDue ELSE now + TimeStep
    /\ UNCHANGED <<page, formVars, emitted, jobId, handoff, mounted, result, timerActive,
                   timerDue, pollInFlight, starts, received, failures, staleSetResult>>

\* the callback after its awaits, for a request whose response has arrived
PollRespond ==
    /\ page = "verify"
    /\ \E r \in pollInFlight, json \in PollBodies :
         /\ pollInFlight' = pollInFlight \ {r}
         /\ received' = Append(received, json)
         /\ result' = IF mounted THEN ResultAfter(json, result) ELSE result
         /\ staleSetResult' = (staleSetResult \/ (~mounted /\ IsTerminal(json)))
         /\ timerActive' = (timerActive /\ ~ClearsInterval(json))
    /\ emitted' = NoEffects
    /\ UNCHANGED <<page, formVars, jobId, handoff, mounted, timerDue, now, starts, failures>>

\* a callback that gives up on a rejected await: it clears the interval
PollFailStops ==
    /\ page = "verify"
    /\ \E r \in pollInFlight : pollInFlight' = pollInFlight \ {r}
    /\ failures' = failures + 1
    /\ timerActive' = FALSE
    /\ emitted' = NoEffects
    /\ UNCHANGED <<page, formVars, jobId, handoff, mounted, result, timerDue,
                   now, starts, received, staleSetResult>>

\* fetch or res.json() rejects: the callback's promise rejects, nothing else runs
PollFail ==
    /\ page = "verify"
    /\ \E r \in pollInFlight : pollInFlight' = pollInFlight \ {r}
    /\ failures' = failures + 1
    /\ emitted' = NoEffects
    /\ UNCHANGED <<page, formVars, jobId, handoff, mounted, result, timerActive, timerDue,
                   now, starts, received, staleSetResult>>

\* the router replaces Verify by another element in the same document; the
\* effect returned no cleanup function, so nothing of the timer changes
Unmount ==
    /\ page = "verify"
    /\ mounted
    /\ mounted' = FALSE
    /\ emitted' = NoEffects
    /\ UNCHANGED <<page, formVars, jobId, handoff, result, timerActive, timerDue, now,
                   pollInFlight, starts, received, failures, staleSetResult>>

---------------------------------------------------------------------------

Init ==
    /\ page = "evaluate"
    /\ formData = InitialFormData
    /\ submitInFlight = 0
    /\ submitsSent = 0
    /\ emitted = NoEffects
    /\ pendingNav = NoNav
    /\ jobId = NullStr
    /\ handoff = NullStr
    /\ mounted = FALSE
    /\ result = Null
    /\ timerActive = FALSE
    /\ timerDue = 0
    /\ now = 0
    /\ pollInFlight = {}
    /\ starts = <<>>
    /\ received = <<>>
    /\ failures = 0
    /\ staleSetResult = FALSE

Next ==
    \/ SetProjectName
    \/ SetCategory
    \/ toggleTech
    \/ SetSubmissionType
    \/ SetRepoUrl
    \/ validateFile
    \/ handleSubmit
    \/ SubmitSettle
    \/ NavbarClick
    \/ CommitNavigation
    \/ TimerFire
    \/ Advance
    \/ PollRespond
    \/ PollFail
    \/ Unmount

Spec == Init /\ [][Next]_vars

\* The event loop runs a due interval callback, and time passes; when (and
\* whether) a response arrives is up to the network, so nothing is assumed
\* of PollRespond and PollFail.
LiveSpec == Spec /\ WF_vars(TimerFire) /\ WF_vars(Advance)

---------------------------------------------------------------------------
(* Properties.                                                             *)

\* a step in which a pending navigation commits: a new document is loaded
DocumentLoads == pendingNav # NoNav /\ pendingNav' = NoNav

\* a response body whose status is anything but "processing" (also none)
NotProcessing(json) == ("status" \notin DOMAIN json) \/ json.status # "processing"

\* a non-"processing" response has been received
TerminalSeen == \E i \in 1..Len(received) : NotProcessing(received[i])

\* C1: at most one status request is in flight in every reachable state of
\* the poller.
C1_AtMostOneInFlight == Cardinality(pollInFlight) <= 1

\* C2: once a response whose status is not "processing" has been received,
\* no further status request is ever started.
C2_NoRequestAfterTerminal == [][TerminalSeen => starts' = starts]_vars

\* C2 witness: a terminal response has been received and time has run past
\* the moment the cleared timer would have fired next.
C2_Witness == page = "verify" /\ mounted /\ TerminalSeen /\ now > timerDue

\* the validation rules of the submission form, as the specification lists them
InvalidDraft(fd) ==
    \/ fd.category = "default"
    \/ fd.techStack = <<>>
    \/ (fd.submissionType = "zip" /\ fd.file = Null)
    \/ (fd.submissionType = "repo" /\ (fd.repoUrl = <<>> \/ ~startsWith(fd.repoUrl, Http)))

\* C3: handleSubmit on a draft that fails a validation rule sends no request
\* and does not navigate.
C3_InvalidDraftSendsNothing ==
    [][(handleSubmit /\ InvalidDraft(formData)) =>
          /\ emitted'.fetches = <<>>
          /\ emitted'.hrefs = <<>>
          /\ submitsSent' = submitsSent
          /\ submitInFlight' = submitInFlight
          /\ page' = page
          /\ pendingNav' = pendingNav]_vars

\* C3 witness: handleSubmit has just refused an invalid draft whose category
\* is set but whose techStack is empty.
C3_Witness ==
    /\ page = "evaluate"
    /\ InvalidDraft(formData)
    /\ formData.category # "default"
    /\ emitted.alerts = <<MsgTechnology>>

\* the number of entries of a FormData body under a key
CountKey(data, key) == Cardinality({i \in 1..Len(data) : data[i][1] = key})
ValueOf(data, key) == data[CHOOSE i \in 1..Len(data) : data[i][1] = key][2]

\* C4: every submit request carries exactly one of single_zip and git_url:
\* single_zip alone in archive mode, git_url alone in repository mode.
\* (handleSubmit leaves the draft as it is and every other handler clears
\* `emitted`, so the draft beside a request is the draft it was built from.)
C4_ExactlyOneSource ==
    page = "evaluate" =>
      \A i \in 1..Len(emitted.fetches) :
        LET data == emitted.fetches[i]
        IN IF formData.submissionType = "zip"
           THEN /\ CountKey(data, "single_zip") = 1
                /\ CountKey(data, "git_url") = 0
                /\ ValueOf(data, "single_zip") = formData.file
                /\ formData.file # Null
           ELSE /\ CountKey(data, "git_url") = 1
                /\ CountKey(data, "single_zip") = 0
                /\ ValueOf(data, "git_url") = formData.repoUrl

\* C4 witness: a request was sent in repository mode while the draft still
\* holds a file.
C4_Witness ==
    /\ page = "evaluate"
    /\ emitted.fetches # <<>>
    /\ formData.submissionType = "repo"
    /\ formData.file # Null

\* C5: when the responses are k times "processing" and then one other
\* status (and no attempt failed), exactly k+1 requests were issued, at least
\* 3000 ms apart, and the last response is the result.
C5_ExactlyKPlusOneRequests ==
    LET n == Len(received)
    IN (/\ page = "verify" /\ mounted /\ failures = 0
        /\ n >= 1
        /\ \A i \in 1..(n - 1) : ~NotProcessing(received[i])
        /\ NotProcessing(received[n]))
       => /\ Len(starts) = n
          /\ \A i \in 1..(Len(starts) - 1) : starts[i + 1] - starts[i] >= 3000
          /\ result = received[n]

\* C6: after a submit response with a non-empty job_id, the identifier the
\* poller holds and puts into its status requests is exactly that job_id.
C6_HandoffIsExact ==
    (page = "verify" /\ handoff # NullStr) =>
       /\ jobId = handoff
       /\ \A r \in pollInFlight : r.target = handoff

\* C7: after Verify is torn down, no status request is started and no state
\* update is performed.
C7_NothingAfterTeardown ==
    [][(page = "verify" /\ ~mounted) =>
          (starts' = starts /\ staleSetResult' = staleSetResult)]_vars

\* C8: the poller is not terminal while every response was "processing"; the
\* first response with another status (unrecognized or missing included)
\* makes it terminal with that whole object as the result; a "processing"
\* response leaves the result as it was.
C8_TerminalOnFirstOtherStatus ==
    [][(page = "verify" /\ mounted /\ Len(received') = Len(received) + 1) =>
          LET json == received'[Len(received')]
          IN IF ~NotProcessing(json)
             THEN /\ result' = result
                  /\ ~TerminalSeen => (result' = Null /\ timerActive')
             ELSE ~TerminalSeen => (result' = json /\ ~timerActive')]_vars

\* C8 witness: after a "processing" response, a response without a status
\* key has become the result.
C8_Witness ==
    /\ page = "verify" /\ mounted
    /\ Len(received) = 2
    /\ received[1] = Processing
    /\ received[2] = NoStatus
    /\ result = NoStatus

\* C9: no response with a status other than "completed" stops the poll loop.
C9_OnlyCompletedStops ==
    [][(page = "verify" /\ Len(received') = Len(received) + 1
        /\ GetStatus(received'[Len(received')]) # "completed")
       => timerActive' = timerActive]_vars

\* C10: once the poller holds a terminal result, no later event replaces it.
C10_TerminalResultImmutable ==
    [][(page = "verify" /\ result # Null) => result' = result]_vars

\* C11: a failed poll attempt (rejected fetch or malformed JSON) changes
\* neither the timer nor the displayed state: the result is what it was and
\* the timer stays armed for the same next tick; while no terminal response
\* has come, the view is still "Processing..." (result is null).
C11_FailureIsSilent ==
    [][(page = "verify" /\ failures' = failures + 1) =>
          /\ result' = result
          /\ timerDue' = timerDue
          /\ timerActive' = timerActive
          /\ mounted' = mounted
          /\ ~TerminalSeen => (timerActive' /\ result' = Null)]_vars

\* C11 witness: the only request so far has failed, before the next tick;
\* the view shows "Processing..." and the timer is armed.
C11_Witness ==
    /\ page = "verify" /\ mounted
    /\ failures = 1 /\ received = <<>>
    /\ Len(starts) = 1 /\ pollInFlight = {}
    /\ now < timerDue
    /\ timerActive /\ result = Null

\* a step of the form's document in which a pending submit ends without
\* starting a navigation (its catch ran)
SubmitFailedStep ==
    /\ page = "evaluate" /\ ~DocumentLoads
    /\ submitInFlight' = submitInFlight - 1
    /\ emitted'.hrefs = <<>>

\* C12: a handleSubmit run that fails validation, and the failure of a sent
\* submission, leave every field of the draft as it is; a failed submission
\* reports exactly one message, "Submission failed.".
C12_FailureKeepsDraft ==
    [][/\ (handleSubmit /\ InvalidDraft(formData)) => formData' = formData
       /\ SubmitFailedStep =>
            /\ formData' = formData
            /\ emitted'.alerts = <<MsgSubmissionFailed>>
            /\ emitted'.fetches = <<>>
            /\ pendingNav' = pendingNav]_vars

\* C12 witness: a submission has just failed and the draft is still a
\* complete archive draft.
C12_Witness ==
    /\ page = "evaluate"
    /\ emitted.alerts = <<MsgSubmissionFailed>>
    /\ formData.projectName = "Demo"
    /\ formData.category = "python"
    /\ formData.techStack = <<"Go", "React">>
    /\ formData.submissionType = "zip"
    /\ formData.file = FileTypedZip

\* C13: while the form's document lives, a request is sent exactly by a
\* handleSubmit run on a draft that passes validation, one request per run,
\* also with earlier submits still pending; no other step (a failed
\* submission in particular) sends one.
C13_OneRequestPerSubmit ==
    [][(page = "evaluate" /\ ~DocumentLoads) =>
          IF handleSubmit /\ ~InvalidDraft(formData)
          THEN /\ Len(emitted'.fetches) = 1
               /\ submitsSent' = submitsSent + 1
               /\ submitInFlight' = submitInFlight + 1
          ELSE /\ emitted'.fetches = <<>>
               /\ submitsSent' = submitsSent
               /\ submitInFlight' <= submitInFlight]_vars

\* C13 witness: a second request has just been sent while the first is
\* still pending.
C13_Witness ==
    /\ page = "evaluate"
    /\ emitted.fetches # <<>>
    /\ submitsSent = 2
    /\ submitInFlight = 2

\* C14: a submit response with a non-2xx status is a submission failure,
\* whatever its body: the message is reported and nothing navigates.
C14_NonOkIsFailure ==
    [][\A o \in [ok : {FALSE}, body : SubmitBodies] :
          SubmitSettleWith(o) =>
             /\ emitted'.alerts = <<MsgSubmissionFailed>>
             /\ emitted'.hrefs = <<>>
             /\ pendingNav' = pendingNav]_vars

\* C15: a file selection that is rejected ("Please upload a .zip file")
\* leaves the stored file and every other field of the draft as they were.
C15_RejectedFileKeepsDraft ==
    [][(page = "evaluate" /\ emitted'.alerts = <<MsgNotZip>>) =>
          formData' = formData]_vars

\* C15 witness: a file has just been rejected and the draft still holds the
\* file stored before.
C15_Witness ==
    /\ page = "evaluate"
    /\ emitted.alerts = <<MsgNotZip>>
    /\ formData.file = FileLowerZip
    /\ formData.techStack # <<>>

\* String.prototype.toLowerCase on the letters the file names use
LowerChar(c) ==
    CASE c = "A" -> "a" [] c = "Z" -> "z" [] c = "I" -> "i" [] c = "P" -> "p"
      [] OTHER -> c
ToLower(s) == [i \in 1..Len(s) |-> LowerChar(s[i])]

\* the archive-file rule of the data model: the name ends in ".zip",
\* compared case-insensitively, or the media type names a zip / compressed
\* archive
IsArchiveFile(file) ==
    \/ endsWith(ToLower(file.name), DotZip)
    \/ includes(ToLower(file.type), ZipWord)
    \/ includes(ToLower(file.type), CompressedWord)

\* C16: a selected file is stored into the draft if and only if it satisfies
\* the archive-file rule, so the stored file is null or satisfies it.
C16_StoredIffArchive ==
    [][\A f \in Files :
          validateFileWith(f) => (formData'.file = f <=> IsArchiveFile(f))]_vars

HttpPrefix == Http \o <<":", "/", "/">>
HttpsPrefix == Http \o <<"s", ":", "/", "/">>

\* C17: a request sent in repository mode carries a repoUrl that begins
\* with "http://" or "https://" (every other value is rejected and nothing
\* is sent).
C17_RepoUrlHasHttpScheme ==
    (page = "evaluate" /\ emitted.fetches # <<>> /\ formData.submissionType = "repo") =>
       /\ formData.repoUrl # <<>>
       /\ startsWith(formData.repoUrl, HttpPrefix) \/ startsWith(formData.repoUrl, HttpsPrefix)

\* the rules of the validation contract, one by one
CategoryFails(fd) == fd.category = "default"
TechStackFails(fd) == fd.techStack = <<>>
SourceFails(fd) ==
    \/ (fd.submissionType = "zip" /\ fd.file = Null)
    \/ (fd.submissionType = "repo" /\ (fd.repoUrl = <<>> \/ ~startsWith(fd.repoUrl, Http)))

\* C18: a handleSubmit run on a draft failing one or more rules reports
\* exactly one message: that of the first failing rule in the order
\* category, techStack, archive file / repository URL.
C18_FirstFailingRuleReported ==
    [][(handleSubmit /\ InvalidDraft(formData)) =>
          /\ Len(emitted'.alerts) = 1
          /\ CategoryFails(formData) => emitted'.alerts[1] = MsgProjectType
          /\ (~CategoryFails(formData) /\ TechStackFails(formData))
                => emitted'.alerts[1] = MsgTechnology
          /\ (~CategoryFails(formData) /\ ~TechStackFails(formData))
                => emitted'.alerts[1] =
                      (IF formData.submissionType = "zip" THEN MsgZipFile ELSE MsgRepoUrl)]_vars

\* C18 witness: the techStack rule and the repository-URL rule both fail and
\* the techStack message alone has been reported.
C18_Witness ==
    /\ page = "evaluate"
    /\ ~CategoryFails(formData) /\ TechStackFails(formData) /\ SourceFails(formData)
    /\ formData.submissionType = "repo"
    /\ formData.repoUrl = UrlFtp
    /\ emitted.alerts = <<MsgTechnology>>

\* the technology names among the pieces of a description, in their order
IsTech(x) == x \in TECH_OPTIONS
TechEntries(desc) == SelectSeq(desc, IsTech)

Elems(seq) == {seq[i] : i \in 1..Len(seq)}

\* C19: the description of a request depends on projectName and techStack
\* alone and lists the technologies in the order of techStack, which is the
\* order of their latest selection: a toggle that selects puts the
\* technology last and keeps the others' order, a toggle that deselects
\* keeps the others' order.
C19_DescriptionInSelectionOrder ==
    [][/\ (page = "evaluate" /\ ~DocumentLoads /\ emitted'.fetches # <<>>) =>
            LET desc == ValueOf(emitted'.fetches[1], "description")
            IN /\ TechEntries(desc) = formData.techStack
               /\ desc[1] = formData.projectName
               /\ desc = Description([InitialFormData EXCEPT
                                        !.projectName = formData.projectName,
                                        !.techStack = formData.techStack])
       /\ (page = "evaluate" /\ ~DocumentLoads
                   /\ formData'.techStack # formData.techStack) =>
            \E t \in TECH_OPTIONS :
               IF t \in Elems(formData.techStack)
               THEN formData'.techStack = SelectSeq(formData.techStack, LAMBDA x : x # t)
               ELSE formData'.techStack = formData.techStack \o <<t>>]_vars

\* C19 witness: Go was selected before React (React was selected last) and
\* the request's description lists them in that order.
C19_Witness ==
    /\ page = "evaluate"
    /\ emitted.fetches # <<>>
    /\ formData.techStack = <<"Go", "React">>
    /\ ValueOf(emitted.fetches[1], "description")
          = <<"Demo", " | Tech: ", "Go", ", ", "React">>

\* the separator the documented description form puts between its parts
DashSeparator == " - "

\* C20: the description of a request is the project name, the tech stack and
\* a user description, separated by " - ": its pieces are the project name,
\* the separator, the selected technologies, the separator, and a last part.
C20_DescriptionHasDashForm ==
    (page = "evaluate" /\ emitted.fetches # <<>>) =>
        LET desc == ValueOf(emitted.fetches[1], "description")
        IN \E j \in 1..Len(desc) :
              /\ j > 2
              /\ desc[1] = formData.projectName
              /\ desc[2] = DashSeparator
              /\ desc[j] = DashSeparator
              /\ TechEntries(SubSeq(desc, 3, j - 1)) = formData.techStack

\* C21: while Verify is mounted and no terminal response has come, the
\* requests start exactly at the ticks of the 3000 ms period counted from
\* mount (request i at i * 3000 ms, no tick is skipped or delayed, whatever
\* became of the earlier requests), and every request is followed by a next
\* one: nothing but a terminal response ends the sequence.
C21_FixedPeriodForever ==
    /\ [](page = "verify" =>
            /\ \A i \in 1..Len(starts) : starts[i] = i * PollInterval
            /\ ~TerminalSeen =>
                  /\ timerActive
                  /\ timerDue = (Len(starts) + 1) * PollInterval
                  /\ now <= timerDue)
    /\ \A k \in 0..(MaxPolls - 1) :
          (/\ page = "verify" /\ mounted /\ ~TerminalSeen
           /\ Len(starts) = k
           /\ (k + 1) * PollInterval <= MaxTime)
             ~> (Len(starts) > k \/ TerminalSeen \/ ~mounted)

\* C21 witness: three requests were started at 3000, 6000 and 9000 ms while
\* no response to any of them has arrived.
C21_Witness ==
    /\ page = "verify" /\ mounted
    /\ starts = <<3000, 6000, 9000>>
    /\ Cardinality(pollInFlight) = 3
    /\ received = <<>> /\ failures = 0

\* C22: a poller mounted without a job identifier (no job_id parameter, or
\* an empty one) never starts a status request.
C22_NoRequestWithoutJobId ==
    (page = "verify" /\ ~Truthy(jobId)) => (starts = <<>> /\ pollInFlight = {})

\* C23: once Verify holds a result (it renders the result, not
\* "Processing..."), it holds one ever after; a "processing" response and a
\* failed attempt arriving then leave the result exactly as it was.
C23_DisplayMonotonic ==
    [][(page = "verify" /\ mounted /\ result # Null) =>
          /\ result' # Null
          /\ failures' # failures => result' = result
          /\ (Len(received') = Len(received) + 1
              /\ ~NotProcessing(received'[Len(received')])) => result' = result]_vars

\* C23 witness: of two overlapping requests one was answered "completed",
\* and the "processing" response to the other arrived afterwards; the result
\* is still the completed one.
C23_Witness ==
    /\ page = "verify" /\ mounted
    /\ received = <<Completed, Processing>>
    /\ result = Completed

NoDuplicates(seq) == \A i, j \in 1..Len(seq) : seq[i] = seq[j] => i = j

\* C24: techStack never holds an entry twice and holds only technologies
\* that were toggled; a toggle of t removes t when it is present and puts t
\* at the end when it is absent, the other entries staying as they are, so a
\* second toggle of t gives the set of technologies back.
C24_ToggleKeepsSetSemantics ==
    [][(page = "evaluate" /\ ~DocumentLoads) =>
          LET old == formData.techStack
              new == formData'.techStack
          IN /\ NoDuplicates(new)
             /\ Elems(new) \subseteq TECH_OPTIONS
             /\ new # old =>
                  \E t \in TECH_OPTIONS :
                     /\ Elems(new) = IF t \in Elems(old) THEN Elems(old) \ {t}
                                     ELSE Elems(old) \cup {t}
                     /\ Len(new) = IF t \in Elems(old) THEN Len(old) - 1 ELSE Len(old) + 1
                     /\ t \notin Elems(old) => new[Len(new)] = t
                     /\ Elems(toggleTechStack(new, t)) = Elems(old)
                     /\ NoDuplicates(toggleTechStack(new, t))]_vars

\* C24 witness: both technologies are selected, React before Go, after
\* toggles alone (no other field of the draft was touched).
C24_Witness ==
    /\ page = "evaluate"
    /\ formData = [InitialFormData EXCEPT !.techStack = <<"React", "Go">>]
    /\ emitted = NoEffects

\* C25: mounting Verify starts no status request: until the first tick,
\* 3000 ms after mount, no request has been started, none is in flight and
\* the result is null (the view shows "Processing..."); the first request
\* starts at that tick.
C25_NoRequestBeforeFirstTick ==
    page = "verify" =>
       /\ now < PollInterval =>
             (starts = <<>> /\ pollInFlight = {} /\ received = <<>> /\ result = Null)
       /\ starts # <<>> => starts[1] = PollInterval

\* C25 witness: Verify is mounted with a job identifier, half of the first
\* period has passed and nothing was requested.
C25_Witness ==
    /\ page = "verify" /\ mounted
    /\ jobId = JobIdPlain
    /\ now = 1500
    /\ starts = <<>> /\ pollInFlight = {}
    /\ result = Null

\* C26: a step that changes submissionType changes nothing else of the
\* draft: file, repoUrl, projectName, category and techStack are as before,
\* so setting submissionType back gives the draft before the switch.
C26_ModeSwitchChangesOnlyMode ==
    [][(page = "evaluate" /\ ~DocumentLoads
        /\ formData'.submissionType # formData.submissionType) =>
          /\ formData'.file = formData.file
          /\ formData'.repoUrl = formData.repoUrl
          /\ formData'.projectName = formData.projectName
          /\ formData'.category = formData.category
          /\ formData'.techStack = formData.techStack
          /\ [formData' EXCEPT !.submissionType = formData.submissionType] = formData]_vars

\* C26 witness: the draft is in archive mode and holds a repository URL
\* beside its file and its other fields: the URL, entered in repository
\* mode, has outlived the switch back.
C26_Witness ==
    /\ page = "evaluate"
    /\ formData.submissionType = "zip"
    /\ formData.repoUrl = UrlHttps
    /\ formData.file = FileLowerZip
    /\ formData.projectName = "Demo"
    /\ formData.category = "frontend"
    /\ formData.techStack = <<"React">>

====
